---- MODULE Spec2Model ----
(***************************************************************************)
(* A model of app.py, the BTST stock scanner: the script is one sequential *)
(* run (load the symbol sheet, fetch the index bar, analyse every symbol   *)
(* in turn, filter, format, display, export).  Prices and volumes are      *)
(* integers, every derived metric is an exact rational [n, d] (d = 0 is    *)
(* NaN), so divisions, thresholds and roundings are computed, not assumed. *)
(* The indicator library (RSI, MACD, Bollinger) is outside the repository: *)
(* for each symbol the environment decides whether its calls succeed or    *)
(* raise; the indicator values themselves are not carried in the records.  *)
(***************************************************************************)
EXTENDS Integers, Sequences, FiniteSets, TLC

VARIABLES pc, symbols, i, index_data, idx_pct_change, market, results, df,
          btst_stocks, shown_btst, csv, shown_df

vars == <<pc, symbols, i, index_data, idx_pct_change, market, results, df,
          btst_stocks, shown_btst, csv, shown_df>>

\* ------------------------------------------------------------------ bounds
\* the day number of the selected analysis date
SelectedDay == 100
\* the longest symbol list a sheet holds
MaxSymbols == 3
\* the longest fetched price series
MaxBars == 12
\* the largest daily volume
MaxVolume == 2

\* --------------------------------------------------------- program constants
\* start_date = analysis_date - timedelta(days=60)
LOOKBACK_DAYS == 60
\* data['Volume'].rolling(window=10)
ROLLING_WINDOW == 10

\* ------------------------------------------------------------- exact numbers
RECURSIVE GCD(_, _)
GCD(a, b) ==
    IF b = 0 THEN a ELSE GCD(b, a % b)

Abs(x) ==
    IF x < 0 THEN -x ELSE x

\* the float nan
NaN ==
    [n |-> 0, d |-> 0]

\* the float n / d, held exactly in lowest terms with a positive denominator.
\* The only zero divisor the model can reach is the one of an unguarded
\* 0 / 0, which is nan (every bar keeps Open > 0 and Low <= Close).
Rat(n, d) ==
    IF d = 0 THEN NaN
    ELSE LET g == GCD(Abs(n), Abs(d))
             s == IF d < 0 THEN -1 ELSE 1
         IN  [n |-> (s * n) \div g, d |-> (s * d) \div g]

IsNaN(x) ==
    x.d = 0

\* x >= k for an integer k; every comparison with nan is False
Geq(x, k) ==
    ~IsNaN(x) /\ x.n >= k * x.d

\* x > k for an integer k
Gt(x, k) ==
    ~IsNaN(x) /\ x.n > k * x.d

\* ------------------------------------------------------------------- dates
\* analysis_date = pd.Timestamp(selected_date)
analysis_date ==
    SelectedDay

\* start_date of the per-symbol download
start_date ==
    analysis_date - LOOKBACK_DAYS

\* end_date of both downloads (exclusive)
end_date ==
    analysis_date + 1

\* ------------------------------------------------------- the price series
\* analysis_date in data.index: exact key equality
InIndex(date, data) ==
    \E k \in 1..Len(data) : data[k].Date = date

\* data.loc[analysis_date]
Loc(data, date) ==
    data[CHOOSE k \in 1..Len(data) : data[k].Date = date]

\* the sentinel analyze_stock returns for an excluded symbol
None ==
    [none |-> TRUE]

\* data[data.index < analysis_date].iloc[-1] if data.index[0] < analysis_date else None
prev_day(data) ==
    IF data[1].Date < analysis_date
    THEN LET before == SelectSeq(data, LAMBDA b : b.Date < analysis_date)
         IN  before[Len(before)]
    ELSE None

\* ((today['Close'] - today['Open']) / today['Open']) * 100
pct_change(today) ==
    Rat((today.Close - today.Open) * 100, today.Open)

\* the ratio without its guard against High == Low
pct_close_near_high_unguarded(today) ==
    Rat((today.Close - today.Low) * 100, today.High - today.Low)

\* ((Close - Low) / (High - Low)) * 100 if High != Low else 0
pct_close_near_high(today) ==
    IF today.High # today.Low
    THEN Rat((today.Close - today.Low) * 100, today.High - today.Low)
    ELSE Rat(0, 1)

\* today['Close'] > prev_day['High'] if prev_day is not None else False
close_above_prev_high(today, prev) ==
    IF prev # None THEN today.Close > prev.High ELSE FALSE

RECURSIVE SumVolume(_, _, _)
\* the sum of data[lo..hi].Volume
SumVolume(data, lo, hi) ==
    IF lo > hi THEN 0 ELSE data[hi].Volume + SumVolume(data, lo, hi - 1)

\* data['Volume'].rolling(window=10).mean() at position p (1-based): nan
\* until the window is full
RollingMean(data, p) ==
    IF p < ROLLING_WINDOW THEN NaN
    ELSE Rat(SumVolume(data, p - ROLLING_WINDOW + 1, p), ROLLING_WINDOW)

\* the position .iloc[-1] would read: the analysis day's own bar
Iloc1(data) ==
    Len(data)

\* the position .iloc[-2] reads: the second-to-last bar of the series
Iloc2(data) ==
    Len(data) - 1

\* data['Volume'].rolling(window=10).mean().iloc[-2]
avg_volume(data) ==
    RollingMean(data, Iloc2(data))

\* today['Volume'] / avg_volume if avg_volume > 0 else 0
volume_spike(today, avg) ==
    IF Gt(avg, 0) THEN Rat(today.Volume * avg.d, avg.n) ELSE Rat(0, 1)

\* ((today['High'] - today['Low']) / today['Open']) * 100
intraday_range_pct(today) ==
    Rat((today.High - today.Low) * 100, today.Open)

\* what an exception leaving analyze_stock hands to its caller
Raised ==
    [raised |-> TRUE]

\* an except branch that logs the error and raises it again
except_reraise ==
    Raised

\* the except branch of analyze_stock: log the error, return None
except_handler ==
    None

\* the dictionary analyze_stock returns
Record(symbol, data) ==
    LET today == Loc(data, analysis_date)
        avg   == avg_volume(data)
    IN  [Symbol |-> symbol,
         Open |-> Rat(today.Open, 1),
         High |-> Rat(today.High, 1),
         Low |-> Rat(today.Low, 1),
         Close |-> Rat(today.Close, 1),
         Volume |-> Rat(today.Volume, 1),
         avg_volume |-> avg,
         pct_change |-> pct_change(today),
         pct_close_near_high |-> pct_close_near_high(today),
         close_above_prev_high |-> close_above_prev_high(today, prev_day(data)),
         volume_spike |-> volume_spike(today, avg),
         intraday_range_pct |-> intraday_range_pct(today)]

\* a row of missing values, which the analyzer never builds
placeholder_row(symbol) ==
    [Symbol |-> symbol, Open |-> NaN, High |-> NaN, Low |-> NaN,
     Close |-> NaN, Volume |-> NaN, avg_volume |-> NaN, pct_change |-> NaN,
     pct_close_near_high |-> NaN, close_above_prev_high |-> FALSE,
     volume_spike |-> NaN, intraday_range_pct |-> NaN]

\* if analysis_date not in data.index: return None
missing_bar(symbol) ==
    None

\* analyze_stock(symbol, analysis_date) on what the provider returns for the
\* symbol: feed.fetch says whether yf.download raises, feed.data is the
\* series it returns, feed.ta whether the indicator calls raise
analyze_stock(symbol, feed) ==
    IF feed.fetch = "raise" THEN except_handler
    ELSE IF ~InIndex(analysis_date, feed.data) THEN missing_bar(symbol)
    ELSE IF Iloc2(feed.data) < 1 THEN except_handler
    ELSE IF feed.ta = "raise" THEN except_handler
    ELSE Record(symbol, feed.data)

\* --------------------------------------------------- what the provider holds
\* the prices the bars of the model are built from
PriceLevels ==
    {40, 47, 50, 51}

Volumes ==
    0..MaxVolume

Max(a, b) ==
    IF a >= b THEN a ELSE b

Min(a, b) ==
    IF a <= b THEN a ELSE b

\* a Bar: High >= max(Open, Close) >= min(Open, Close) >= Low > 0
ValidOHLC ==
    {q \in PriceLevels \X PriceLevels \X PriceLevels \X PriceLevels :
        q[2] >= Max(q[1], q[4]) /\ q[3] <= Min(q[1], q[4])}

Bar(date, q, v) ==
    [Date |-> date, Open |-> q[1], High |-> q[2], Low |-> q[3],
     Close |-> q[4], Volume |-> v]

\* a bar that opened, traded and closed at one price
Flat(p) ==
    <<p, p, p, p>>

\* a series of n daily bars on consecutive days, the last one on day end:
\* the last bar is (lastq, lastv), the one before it is flat at prevp with
\* volume prevv, the older ones are flat at 50 with volume histv
MkSeries(n, histv, prevp, prevv, lastq, lastv, end) ==
    [k \in 1..n |->
        IF k = n THEN Bar(end, lastq, lastv)
        ELSE IF k = n - 1 THEN Bar(end - 1, Flat(prevp), prevv)
        ELSE Bar(end - (n - k), Flat(50), histv)]

\* what yf.download and the indicator library do for one symbol
Feed(fetch, data, ta) ==
    [fetch |-> fetch, data |-> data, ta |-> ta]

\* every series of up to MaxBars bars of the shape above that the download
\* window [start_date, end_date) can hold
AnalyzeFeeds ==
    {Feed("ok", MkSeries(n, hv, pp, pv, q, v, e), "ok") :
        n \in 0..MaxBars, hv \in Volumes, pp \in {47, 51}, pv \in Volumes,
        q \in ValidOHLC, v \in Volumes,
        e \in {d \in {analysis_date - 1, analysis_date} :
                 d < end_date /\ d - MaxBars >= start_date}}

\* the analysis-day bars of the scan: each sits on a threshold of the filter
\* or just misses one
ScanOHLC ==
    {<<50, 51, 40, 51>>, <<47, 50, 40, 47>>, <<40, 50, 40, 47>>,
     <<40, 51, 40, 47>>}

\* a full window of history before the analysis-day bar
FullSeries(histv, prevp, q, v, end) ==
    MkSeries(ROLLING_WINDOW + 1, histv, prevp, histv, q, v, end)

ScanFeeds ==
    {Feed("raise", <<>>, "ok"), Feed("ok", <<>>, "ok")}
    \cup {Feed("ok", FullSeries(1, 40, <<50, 51, 40, 51>>, 2, analysis_date - 1), "ok")}
    \cup {Feed("ok", MkSeries(n, 1, 40, 1, <<50, 51, 40, 51>>, 2, analysis_date), "ok") :
            n \in 1..2}
    \cup {Feed("ok", FullSeries(1, 40, q, 2, analysis_date), ta) :
            q \in ScanOHLC, ta \in {"ok", "raise"}}
    \cup {Feed("ok", FullSeries(hv, pp, <<50, 51, 40, 51>>, v, analysis_date), "ok") :
            hv \in 0..1, pp \in {40, 51}, v \in 1..2}

Symbols ==
    {"A", "B"}

RECURSIVE SeqsUpTo(_, _)
\* the sequences over S of length at most n
SeqsUpTo(S, n) ==
    IF n = 0 THEN {<<>>}
    ELSE LET shorter == SeqsUpTo(S, n - 1)
         IN  shorter \cup {Append(q, x) : q \in shorter, x \in S}

\* the 'Symbol' column of a sheet
SymbolLists ==
    SeqsUpTo(Symbols, MaxSymbols)

\* the index bars the provider may hold for the analysis date
IndexBars ==
    {Bar(analysis_date, q, 1) : q \in {<<50, 50, 49, 49>>, <<50, 50, 50, 50>>,
                                        <<50, 51, 50, 51>>}}

\* ------------------------------------------------------------------ filter
\* the criteria with a strict first threshold
btst_criteria_strict(row, idx) ==
    /\ Gt(row.pct_change, 2)
    /\ Geq(row.volume_spike, 2)
    /\ Geq(row.pct_close_near_high, 70)
    /\ row.close_above_prev_high = TRUE
    /\ Geq(idx, 0)

\* btst_criteria for one row of df
btst_criteria(row, idx) ==
    /\ Geq(row.pct_change, 2)
    /\ Geq(row.volume_spike, 2)
    /\ Geq(row.pct_close_near_high, 70)
    /\ row.close_above_prev_high = TRUE
    /\ Geq(idx, 0)

\* df[btst_criteria]: the rows of the table where the mask is True, in order
BooleanIndex(table, idx) ==
    SelectSeq(table, LAMBDA row : btst_criteria(row, idx))

\* results.insert(0, result)
PrependResult(rs, result) ==
    <<result>> \o rs

\* results.append(result)
AppendResult(rs, result) ==
    Append(rs, result)

\* -------------------------------------------------------------- formatting
\* the integer nearest to n / d (d > 0), ties to even
Round(n, d) ==
    LET q == n \div d
        r == n % d
    IN  IF 2 * r < d THEN q
        ELSE IF 2 * r > d THEN q + 1
        ELSE IF q % 2 = 0 THEN q ELSE q + 1

\* fmt.format(x) if not pd.isna(x) else '': the text of x to the given number
\* of decimal places, held as the format and the rounded, scaled digits
FormatValue(fmt, places, x) ==
    IF IsNaN(x) THEN [fmt |-> "", digits |-> 0]
    ELSE [fmt |-> fmt,
          digits |-> Round(x.n * (IF places = 2 THEN 100 ELSE 1), x.d)]

\* format_dict applied to one row of btst_stocks
FormatRow(row) ==
    [row EXCEPT
        !.Open = FormatValue("{:.2f}", 2, @),
        !.High = FormatValue("{:.2f}", 2, @),
        !.Low = FormatValue("{:.2f}", 2, @),
        !.Close = FormatValue("{:.2f}", 2, @),
        !.Volume = FormatValue("{:,.0f}", 0, @),
        !.avg_volume = FormatValue("{:,.0f}", 0, @),
        !.pct_change = FormatValue("{:.2f}%", 2, @),
        !.pct_close_near_high = FormatValue("{:.2f}%", 2, @),
        !.volume_spike = FormatValue("{:.2f}x", 2, @),
        !.intraday_range_pct = FormatValue("{:.2f}%", 2, @)]

\* btst_stocks[col] = btst_stocks[col].apply(...) for every col of format_dict
ApplyFormatting(table) ==
    [k \in 1..Len(table) |-> FormatRow(table[k])]

\* ------------------------------------------------------------------ the run
\* index_data before get_index_data has run
NotFetched ==
    [fetched |-> FALSE, bars |-> <<>>]

Init ==
    /\ pc = "load_sheets"
    /\ symbols = <<>>
    /\ i = 0
    /\ index_data = NotFetched
    /\ idx_pct_change = NaN
    /\ market \in [Symbols -> ScanFeeds]
    /\ results = <<>>
    /\ df = <<>>
    /\ btst_stocks = <<>>
    /\ shown_btst = <<>>
    /\ csv = <<>>
    /\ shown_df = <<>>

\* pd.ExcelFile('stocklist.xlsx'): st.stop() when the file is not found
LoadSheets ==
    /\ pc = "load_sheets"
    /\ \E found \in BOOLEAN :
          pc' = IF found THEN "read_sheet" ELSE "stopped"
    /\ UNCHANGED <<symbols, i, index_data, idx_pct_change, market, results,
                   df, btst_stocks, shown_btst, csv, shown_df>>

\* pd.read_excel of the selected sheet: st.stop() when it has no 'Symbol'
\* column or reading raises, else symbols = df_stocks['Symbol'].tolist()
ReadSheet ==
    /\ pc = "read_sheet"
    /\ \/ /\ \E outcome \in {"no_column", "exception"} : pc' = "stopped"
          /\ UNCHANGED symbols
       \/ /\ \E column \in SymbolLists : symbols' = column
          /\ pc' = "get_index"
    /\ UNCHANGED <<i, index_data, idx_pct_change, market, results, df,
                   btst_stocks, shown_btst, csv, shown_df>>

\* index_data = get_index_data(selected_date): the bars of [date, date + 1)
get_index_data ==
    /\ pc = "get_index"
    /\ \E bars \in {<<>>} \cup {<<b>> : b \in IndexBars} :
          index_data' = [fetched |-> TRUE, bars |-> bars]
    /\ pc' = "check_index"
    /\ UNCHANGED <<symbols, i, idx_pct_change, market, results, df,
                   btst_stocks, shown_btst, csv, shown_df>>

\* a missing index bar that only warns and lets the run go on
index_missing_continue ==
    "scan"

\* where the run goes when analysis_date is not in index_data.index
index_missing ==
    "stopped"

\* if analysis_date not in index_data.index: st.warning, st.stop(); else
\* idx_pct_change = ((idx_close - idx_open) / idx_open) * 100
CheckIndex ==
    /\ pc = "check_index"
    /\ IF ~InIndex(analysis_date, index_data.bars)
       THEN /\ pc' = index_missing
            /\ UNCHANGED idx_pct_change
       ELSE /\ idx_pct_change' = pct_change(Loc(index_data.bars, analysis_date))
            /\ pc' = "scan"
    /\ UNCHANGED <<symbols, i, index_data, market, results, df, btst_stocks,
                   shown_btst, csv, shown_df>>

\* one iteration of the loop over symbols: result = analyze_stock(...);
\* if result: results.append(result).  An exception that left analyze_stock
\* would end the script.
ScanStep ==
    /\ pc = "scan"
    /\ i < Len(symbols)
    /\ LET symbol == symbols[i + 1]
           result == analyze_stock(symbol, market[symbol])
       IN  IF result = Raised
           THEN /\ pc' = "crashed"
                /\ UNCHANGED <<i, results>>
           ELSE /\ results' = IF result # None THEN AppendResult(results, result)
                              ELSE results
                /\ i' = i + 1
                /\ pc' = "scan"
    /\ UNCHANGED <<symbols, index_data, idx_pct_change, market, df,
                   btst_stocks, shown_btst, csv, shown_df>>

\* after the loop: if results: df = pd.DataFrame(results), btst_stocks =
\* df[btst_criteria]; else the warning and the footer
CreateResults ==
    /\ pc = "scan"
    /\ i = Len(symbols)
    /\ IF results # <<>>
       THEN /\ df' = results
            /\ btst_stocks' = BooleanIndex(results, idx_pct_change)
            /\ pc' = "format"
       ELSE /\ pc' = "footer"
            /\ UNCHANGED <<df, btst_stocks>>
    /\ UNCHANGED <<symbols, i, index_data, idx_pct_change, market, results,
                   shown_btst, csv, shown_df>>

\* if not btst_stocks.empty: apply format_dict to btst_stocks; else st.info
FormatCandidates ==
    /\ pc = "format"
    /\ IF btst_stocks # <<>>
       THEN /\ btst_stocks' = ApplyFormatting(btst_stocks)
            /\ pc' = "show_btst"
       ELSE /\ pc' = "show_all"
            /\ UNCHANGED btst_stocks
    /\ UNCHANGED <<symbols, i, index_data, idx_pct_change, market, results,
                   df, shown_btst, csv, shown_df>>

\* st.dataframe(btst_stocks, ...)
ShowCandidates ==
    /\ pc = "show_btst"
    /\ shown_btst' = btst_stocks
    /\ pc' = "export"
    /\ UNCHANGED <<symbols, i, index_data, idx_pct_change, market, results,
                   df, btst_stocks, csv, shown_df>>

\* csv = btst_stocks.to_csv(index=False): one line for each row
ExportCandidates ==
    /\ pc = "export"
    /\ csv' = btst_stocks
    /\ pc' = "show_all"
    /\ UNCHANGED <<symbols, i, index_data, idx_pct_change, market, results,
                   df, btst_stocks, shown_btst, shown_df>>

\* st.dataframe(df, ...)
ShowAll ==
    /\ pc = "show_all"
    /\ shown_df' = df
    /\ pc' = "footer"
    /\ UNCHANGED <<symbols, i, index_data, idx_pct_change, market, results,
                   df, btst_stocks, shown_btst, csv>>

\* st.divider(), st.caption(...): the end of the script
Footer ==
    /\ pc = "footer"
    /\ pc' = "done"
    /\ UNCHANGED <<symbols, i, index_data, idx_pct_change, market, results,
                   df, btst_stocks, shown_btst, csv, shown_df>>

Next ==
    \/ LoadSheets
    \/ ReadSheet
    \/ get_index_data
    \/ CheckIndex
    \/ ScanStep
    \/ CreateResults
    \/ FormatCandidates
    \/ ShowCandidates
    \/ ExportCandidates
    \/ ShowAll
    \/ Footer

Spec ==
    Init /\ [][Next]_vars

\* ------------------------------------------------------ the loop on its own
\* one feed for each way the analysis of a symbol can end: the download
\* raises, no bar at all, a lone bar (.iloc[-2] raises), the indicator library
\* raises, a record
LoopFeeds ==
    {Feed("raise", <<>>, "ok"), Feed("ok", <<>>, "ok"),
     Feed("ok", MkSeries(1, 1, 40, 1, <<50, 51, 40, 51>>, 2, analysis_date), "ok"),
     Feed("ok", FullSeries(1, 40, <<50, 51, 40, 51>>, 2, analysis_date), "raise"),
     Feed("ok", FullSeries(1, 40, <<50, 51, 40, 51>>, 2, analysis_date), "ok")}

\* a run that has loaded its sheet and found the index bar, about to enter
\* the loop over the symbols
LoopInit ==
    /\ pc = "scan"
    /\ symbols \in SymbolLists
    /\ i = 0
    /\ index_data \in {[fetched |-> TRUE, bars |-> <<b>>] : b \in IndexBars}
    /\ idx_pct_change = pct_change(index_data.bars[1])
    /\ market \in [Symbols -> LoopFeeds]
    /\ results = <<>>
    /\ df = <<>>
    /\ btst_stocks = <<>>
    /\ shown_btst = <<>>
    /\ csv = <<>>
    /\ shown_df = <<>>

LoopNext ==
    \/ ScanStep
    \/ CreateResults

\* the script runs top to bottom: a step that can be taken is taken
FairLoopSpec ==
    LoopInit /\ [][LoopNext]_vars /\ WF_vars(LoopNext)

\* ------------------------------------------------ analyze_stock on its own
\* a run that has loaded a one-symbol sheet and found the index bar, about
\* to analyse the symbol, for every series the provider may hold for it
AnalyzeInit ==
    /\ pc = "scan"
    /\ symbols \in {<<s>> : s \in Symbols}
    /\ i = 0
    /\ index_data \in {[fetched |-> TRUE, bars |-> <<b>>] : b \in IndexBars}
    /\ idx_pct_change = pct_change(index_data.bars[1])
    /\ \E f \in AnalyzeFeeds : market = [s \in Symbols |-> f]
    /\ results = <<>>
    /\ df = <<>>
    /\ btst_stocks = <<>>
    /\ shown_btst = <<>>
    /\ csv = <<>>
    /\ shown_df = <<>>

AnalyzeNext ==
    ScanStep

AnalyzeSpec ==
    AnalyzeInit /\ [][AnalyzeNext]_vars

\* ------------------------------------------------------------ the claims
\* the rows of a table that carry the symbol s
RowsOf(table, s) ==
    {k \in 1..Len(table) : table[k].Symbol = s}

\* the 'Symbol' column of a table
SymbolColumn(table) ==
    [k \in 1..Len(table) |-> table[k].Symbol]

\* the series the provider returned for s holds a bar dated exactly d
HasBarOn(s, d) ==
    \E k \in 1..Len(market[s].data) : market[s].data[k].Date = d

\* neither the download nor the indicator library raised for s
LibrariesOk(s) ==
    market[s].fetch = "ok" /\ market[s].ta = "ok"

\* the five clauses of the filter with their literal thresholds
FiveClauses(row) ==
    /\ ~IsNaN(row.pct_change) /\ row.pct_change.n >= 2 * row.pct_change.d
    /\ ~IsNaN(row.volume_spike) /\ row.volume_spike.n >= 2 * row.volume_spike.d
    /\ ~IsNaN(row.pct_close_near_high)
    /\ row.pct_close_near_high.n >= 70 * row.pct_close_near_high.d
    /\ row.close_above_prev_high
    /\ ~IsNaN(idx_pct_change) /\ idx_pct_change.n >= 0

RECURSIVE IsSubsequence(_, _)
\* a is b with some elements left out, the order kept
IsSubsequence(a, b) ==
    IF a = <<>> THEN TRUE
    ELSE IF b = <<>> THEN FALSE
    ELSE IF Head(a) = Head(b) THEN IsSubsequence(Tail(a), Tail(b))
    ELSE IsSubsequence(a, Tail(b))

C2_NoBarNoRow ==
    \A s \in Symbols :
        ~HasBarOn(s, analysis_date) =>
            /\ analyze_stock(s, market[s]) = None
            /\ RowsOf(results, s) = {}
            /\ RowsOf(df, s) = {}
            /\ RowsOf(btst_stocks, s) = {}
            /\ RowsOf(shown_btst, s) = {}
            /\ RowsOf(csv, s) = {}
            /\ RowsOf(shown_df, s) = {}

\* C2 witness: the loop has passed a symbol whose series ends the day before
\* the analysis date, and a later symbol has a row
C2_Witness ==
    /\ pc = "done"
    /\ \E k \in 1..Len(symbols) :
          /\ market[symbols[k]].data # <<>>
          /\ ~HasBarOn(symbols[k], analysis_date)
          /\ HasBarOn(symbols[k], analysis_date - 1)
          /\ \E j \in (k + 1)..Len(symbols) : RowsOf(shown_df, symbols[j]) # {}

\* C3: every symbol the loop has processed whose fetched series holds a bar on
\* the analysis date (the libraries not raising) has a row in the results,
\* also when that bar is the only bar or one of fewer than 11
C3_RowForEveryBar ==
    \A k \in 1..i :
        (HasBarOn(symbols[k], analysis_date) /\ LibrariesOk(symbols[k]))
            => RowsOf(results, symbols[k]) # {}

\* C4: no failure aborts the scan, and the loop reaches the end of the list
C4_ScanReachesEnd ==
    /\ [](pc # "crashed")
    /\ (pc = "scan") ~> (pc = "scan" /\ i = Len(symbols))

\* C4 witness: the loop is at the end of the list, an earlier symbol's fetch
\* raised and a later symbol got its row
C4_Witness ==
    /\ pc = "scan"
    /\ i = Len(symbols)
    /\ \E k \in 1..i :
          /\ market[symbols[k]].fetch = "raise"
          /\ \E j \in (k + 1)..i : RowsOf(results, symbols[j]) # {}

\* C5: without an index bar for the exact analysis date the run stops before
\* any symbol is analysed and before any table exists; a missing sheet or
\* column stops it before the index is fetched; tables and analysis come only
\* after the index bar was found
C5_StopsBeforeAnalysis ==
    /\ (index_data.fetched /\ ~InIndex(analysis_date, index_data.bars)) =>
          /\ pc \in {"check_index", "stopped"}
          /\ i = 0 /\ results = <<>> /\ df = <<>> /\ btst_stocks = <<>>
    /\ ~index_data.fetched =>
          /\ pc \in {"load_sheets", "read_sheet", "get_index", "stopped"}
          /\ i = 0 /\ results = <<>> /\ df = <<>> /\ btst_stocks = <<>>
    /\ (i > 0 \/ df # <<>> \/ pc \in {"scan", "format", "show_btst", "export",
                                      "show_all", "footer", "done"}) =>
          /\ index_data.fetched
          /\ \E k \in 1..Len(index_data.bars) :
                index_data.bars[k].Date = analysis_date

\* C5 witness: a sheet with symbols was loaded, the index has no bar, the run
\* has stopped
C5_Witness ==
    /\ pc = "stopped"
    /\ symbols # <<>>
    /\ index_data.fetched
    /\ index_data.bars = <<>>

\* C6: the rows of the results are those of the non-excluded symbols processed
\* so far, in input order, one for each occurrence; the full table is the
\* results; the candidate subset is a subsequence of the full table
C6_OrderPreserved ==
    LET kept(s) == analyze_stock(s, market[s]) # None
    IN  /\ SymbolColumn(results) = SelectSeq(SubSeq(symbols, 1, i), kept)
        /\ \A k \in 1..Len(results) :
              results[k] = analyze_stock(results[k].Symbol, market[results[k].Symbol])
        /\ df # <<>> => df = results
        /\ pc = "format" => IsSubsequence(btst_stocks, df)
        /\ IsSubsequence(SymbolColumn(btst_stocks), SymbolColumn(df))

\* C6 witness: a symbol listed twice around another one, three rows in the
\* full table, the filter keeping some and not all
C6_Witness ==
    /\ pc = "format"
    /\ Len(df) = 3
    /\ df[1].Symbol = df[3].Symbol
    /\ df[1].Symbol # df[2].Symbol
    /\ btst_stocks # <<>>
    /\ Len(btst_stocks) < 3

\* the analysis-date bar of the series the provider returned for s
BarOn(s) ==
    LET data == market[s].data
    IN  data[CHOOSE k \in 1..Len(data) : data[k].Date = analysis_date]

\* C7: for every record, pct_close_near_high is (Close - Low) / (High - Low)
\* * 100 and lies in [0, 100] when High > Low, and is exactly 0 when High = Low
C7_CloseNearHighRange ==
    \A k \in 1..Len(results) :
        LET row == results[k]
            bar == BarOn(row.Symbol)
            x   == row.pct_close_near_high
        IN  /\ x.d > 0
            /\ bar.High > bar.Low =>
                  /\ x.n * (bar.High - bar.Low) = (bar.Close - bar.Low) * 100 * x.d
                  /\ 0 <= x.n /\ x.n <= 100 * x.d
            /\ bar.High = bar.Low => (x.n = 0 /\ x.d = 1)

\* C7 witness: a record of a bar whose high equals its low
C7_Witness ==
    \E k \in 1..Len(results) :
        /\ BarOn(results[k].Symbol).High = BarOn(results[k].Symbol).Low
        /\ results[k].pct_close_near_high = [n |-> 0, d |-> 1]

\* the position of the analysis-date bar in the series returned for s
PositionOn(s) ==
    CHOOSE k \in 1..Len(market[s].data) : market[s].data[k].Date = analysis_date

RECURSIVE TrailingVolume(_, _, _)
\* the total volume of the count bars of data that end at position last
TrailingVolume(data, last, count) ==
    IF count = 0 THEN 0
    ELSE data[last].Volume + TrailingVolume(data, last - 1, count - 1)

\* C8: for every record, volume_spike is exactly 0 when the average volume of
\* the 10 bars before the analysis-date bar is undefined (fewer than 10 such
\* bars) or not positive, and is Volume / that average otherwise
C8_VolumeSpike ==
    \A k \in 1..Len(results) :
        LET row  == results[k]
            data == market[row.Symbol].data
            p    == PositionOn(row.Symbol)
            x    == row.volume_spike
        IN  IF p - 1 < 10 THEN x = [n |-> 0, d |-> 1]
            ELSE LET total == TrailingVolume(data, p - 1, 10)
                 IN  IF total <= 0 THEN x = [n |-> 0, d |-> 1]
                     ELSE /\ x.d > 0
                          /\ x.n * total = 10 * data[p].Volume * x.d

\* C8 witness: a record whose trailing average is positive and differs from
\* the average that would include the analysis day
C8_Witness ==
    \E k \in 1..Len(results) :
        LET data == market[results[k].Symbol].data
            p    == PositionOn(results[k].Symbol)
        IN  /\ p > 10
            /\ TrailingVolume(data, p - 1, 10) > 0
            /\ TrailingVolume(data, p - 1, 10) # TrailingVolume(data, p, 10)
            /\ results[k].volume_spike.n > 0

\* C9: what is displayed and exported as the candidate subset holds the values
\* the filter selected, and the full table is what the loop collected
C9_ViewsKeepTheirValues ==
    df # <<>> =>
        LET selected == SelectSeq(df, FiveClauses)
        IN  /\ df = results
            /\ shown_df \in {<<>>, df}
            /\ btst_stocks = selected
            /\ shown_btst \in {<<>>, selected}
            /\ csv \in {<<>>, selected}

\* C10: a processed symbol with a bar on the analysis date (the libraries not
\* raising) has a record; its close_above_prev_high is Close > High of the bar
\* before it, and is false when the analysis-date bar is the first bar fetched
C10_CloseAbovePrevHigh ==
    \A k \in 1..i :
        LET s == symbols[k]
        IN  (HasBarOn(s, analysis_date) /\ LibrariesOk(s)) =>
              /\ RowsOf(results, s) # {}
              /\ \A r \in RowsOf(results, s) :
                    results[r].close_above_prev_high =
                        IF PositionOn(s) = 1 THEN FALSE
                        ELSE BarOn(s).Close > market[s].data[PositionOn(s) - 1].High

====
